---- MODULE Spec2Model ----
(***************************************************************************)
(* Model of satelite.py: a population of LEO and GEO satellites on fixed   *)
(* shells, the per-call azimuth advance (update_positions), the pairwise   *)
(* proximity scan (detect_collisions) and the combined render function     *)
(* make_figure driven by the Dash callback update_graph.                   *)
(*                                                                         *)
(* Numbers.  Angles are counted in units of the advance step, 0.5 degree,  *)
(* so 2*pi is FullCircle = 720 units and pi is 360 units.  Lengths are     *)
(* integers (km); sin and cos are fixed-point with Scale = 10000 and       *)
(* products are rounded to the nearest km.                                 *)
(***************************************************************************)
EXTENDS Integers, Sequences, FiniteSets, TLC

VARIABLES
  pc,        \* phase of the program: "start", "created", "serving"
  cfg,       \* arguments the population was generated with
  all_sats,  \* the module-level list all_sats
  created,   \* history: all_sats as it was right after creation
  ncalls,    \* history: number of make_figure invocations so far
  ui,        \* the client's component properties, the callback's inputs
  fig,       \* figure last delivered to the graph component
  info,      \* text last delivered to the satellite-info div
  err,       \* exception raised by the last make_figure call, or "none"
  det,       \* last stand-alone detect_collisions call: threshold and result
  th         \* per-thread position inside make_figure (concurrent callbacks)

vars == <<pc, cfg, all_sats, created, ncalls, ui, fig, info, err, det, th>>

----------------------------------------------------------------------------
(* Bounds of the model *)

\* satellites generated on the low shell (NUM_LEO is 50 in the program)
NumLeo == 2
\* satellites generated on the geostationary shell (NUM_GEO is 50)
NumGeo == 1
\* make_figure invocations explored
MaxTicks == 3
\* stand-alone update_positions calls explored
MaxAdvances == 1

----------------------------------------------------------------------------
(* Program constants *)

EARTH_RADIUS == 6371
LEO_ALTITUDE == 2000
GEO_ALTITUDE == 35786
INITIAL_THRESHOLD == 100

\* 2*pi in units of the advance step np.radians(0.5)
FullCircle == 720
\* the advance step np.radians(0.5), in the same units
Step == 1
\* fixed-point scale of the sine table
Scale == 10000
\* largest component for which Norm squares exactly in 32-bit integers
NormCap == 26000

----------------------------------------------------------------------------
(* Arithmetic: np.sin, np.cos, np.linalg.norm *)

Abs(n) == IF n < 0 THEN -n ELSE n

Max(a, b) == IF a >= b THEN a ELSE b

\* n / d rounded to the nearest integer, halves away from zero
RoundDiv(n, d) ==
  IF n >= 0 THEN (2 * n + d) \div (2 * d) ELSE -((2 * (-n) + d) \div (2 * d))

\* Scale * sin(k * 0.5 degree) for k = 0 .. 180, at index k + 1
SinTable ==
  <<
     0, 87, 175, 262, 349, 436, 523, 610, 698, 785, 872, 958,
     1045, 1132, 1219, 1305, 1392, 1478, 1564, 1650, 1736, 1822, 1908, 1994,
     2079, 2164, 2250, 2334, 2419, 2504, 2588, 2672, 2756, 2840, 2924, 3007,
     3090, 3173, 3256, 3338, 3420, 3502, 3584, 3665, 3746, 3827, 3907, 3987,
     4067, 4147, 4226, 4305, 4384, 4462, 4540, 4617, 4695, 4772, 4848, 4924,
     5000, 5075, 5150, 5225, 5299, 5373, 5446, 5519, 5592, 5664, 5736, 5807,
     5878, 5948, 6018, 6088, 6157, 6225, 6293, 6361, 6428, 6494, 6561, 6626,
     6691, 6756, 6820, 6884, 6947, 7009, 7071, 7133, 7193, 7254, 7314, 7373,
     7431, 7490, 7547, 7604, 7660, 7716, 7771, 7826, 7880, 7934, 7986, 8039,
     8090, 8141, 8192, 8241, 8290, 8339, 8387, 8434, 8480, 8526, 8572, 8616,
     8660, 8704, 8746, 8788, 8829, 8870, 8910, 8949, 8988, 9026, 9063, 9100,
     9135, 9171, 9205, 9239, 9272, 9304, 9336, 9367, 9397, 9426, 9455, 9483,
     9511, 9537, 9563, 9588, 9613, 9636, 9659, 9681, 9703, 9724, 9744, 9763,
     9781, 9799, 9816, 9833, 9848, 9863, 9877, 9890, 9903, 9914, 9925, 9936,
     9945, 9954, 9962, 9969, 9976, 9981, 9986, 9990, 9994, 9997, 9998, 10000,
     10000
  >>

Sin(a) ==
  LET k == a % FullCircle
  IN  IF k <= 180 THEN SinTable[k + 1]
      ELSE IF k <= 360 THEN SinTable[360 - k + 1]
      ELSE IF k <= 540 THEN -SinTable[k - 360 + 1]
      ELSE -SinTable[720 - k + 1]

Cos(a) == Sin(a + 180)

\* a * s for a fixed-point factor s, rounded to an integer
Mul(a, s) == RoundDiv(a * s, Scale)

RECURSIVE SqrtSearch(_, _, _)
\* the largest k in lo .. hi with k * k <= n
SqrtSearch(n, lo, hi) ==
  IF lo >= hi THEN lo
  ELSE LET mid == (lo + hi + 1) \div 2
       IN  IF mid * mid <= n THEN SqrtSearch(n, mid, hi)
           ELSE SqrtSearch(n, lo, mid - 1)

\* np.linalg.norm of a 3-vector, rounded down; every comparison dist < t with
\* an integer t is decided as by the exact norm.  A vector with a component
\* above NormCap yields that component, a lower bound of its norm: exact
\* for every threshold up to NormCap.
Norm(v) ==
  LET m == Max(Abs(v[1]), Max(Abs(v[2]), Abs(v[3])))
  IN  IF m > NormCap THEN m
      ELSE SqrtSearch(v[1] * v[1] + v[2] * v[2] + v[3] * v[3], 0, 46340)

----------------------------------------------------------------------------
(* generate_satellites *)

\* values random.uniform can return, as (theta, phi) pairs of one
\* satellite: the poles and the equator for theta, and for phi zero and the
\* last step below 2*pi.  random.uniform(0, 360) is 0 + 360 * random() with
\* random() < 1, which in double arithmetic stays below 360, so phi = 720
\* is no draw.
Draws ==
  { [theta |-> 0,   phi |-> 719],
    [theta |-> 180, phi |-> 719],
    [theta |-> 360, phi |-> 0] }

\* sequences of n draws, one per satellite generated
DrawSeqs(n) == [1 .. n -> Draws]

\* mutant: the id numbered from 0, as the loop variable is
NewSat_ZeroBased(label_prefix, i, altitude, d) ==
  LET r == EARTH_RADIUS + altitude
  IN  [ id    |-> <<label_prefix, i>>,
        type  |-> label_prefix,
        theta |-> d.theta,
        phi   |-> d.phi,
        r     |-> r,
        x     |-> Mul(Mul(r, Sin(d.theta)), Cos(d.phi)),
        y     |-> Mul(Mul(r, Sin(d.theta)), Sin(d.phi)),
        z     |-> Mul(r, Cos(d.theta)) ]

\* mutant: a negative altitude taken as zero
NewSat_ClampAltitude(label_prefix, i, altitude, d) ==
  LET r == EARTH_RADIUS + Max(altitude, 0)
  IN  [ id    |-> <<label_prefix, i + 1>>,
        type  |-> label_prefix,
        theta |-> d.theta,
        phi   |-> d.phi,
        r     |-> r,
        x     |-> Mul(Mul(r, Sin(d.theta)), Cos(d.phi)),
        y     |-> Mul(Mul(r, Sin(d.theta)), Sin(d.phi)),
        z     |-> Mul(r, Cos(d.theta)) ]

\* one iteration of the loop, i counted from 0 as range(num) counts it
NewSat(label_prefix, i, altitude, d) ==
  LET r == EARTH_RADIUS + altitude
  IN  [ id    |-> <<label_prefix, i + 1>>,
        type  |-> label_prefix,
        theta |-> d.theta,
        phi   |-> d.phi,
        r     |-> r,
        x     |-> Mul(Mul(r, Sin(d.theta)), Cos(d.phi)),
        y     |-> Mul(Mul(r, Sin(d.theta)), Sin(d.phi)),
        z     |-> Mul(r, Cos(d.theta)) ]

\* range(num) is empty for num <= 0.  draws[k] is what the k-th iteration
\* draws; an id "LEO_3" is the pair <<"LEO", 3>>.
generate_satellites(num, altitude, label_prefix, draws) ==
  [k \in 1 .. num |-> NewSat(label_prefix, k - 1, altitude, draws[k])]

----------------------------------------------------------------------------
(* update_positions *)

\* mutant: the azimuth incremented without the modulo
AdvanceSat_NoWrap(s, dphi) ==
  LET ph == s.phi + dphi
  IN  [s EXCEPT !.phi = ph,
                !.x = Mul(Mul(s.r, Sin(s.theta)), Cos(ph)),
                !.y = Mul(Mul(s.r, Sin(s.theta)), Sin(ph)),
                !.z = Mul(s.r, Cos(s.theta))]

\* one iteration of the loop of update_positions
AdvanceSat(s, dphi) ==
  LET ph == (s.phi + dphi) % FullCircle
  IN  [s EXCEPT !.phi = ph,
                !.x = Mul(Mul(s.r, Sin(s.theta)), Cos(ph)),
                !.y = Mul(Mul(s.r, Sin(s.theta)), Sin(ph)),
                !.z = Mul(s.r, Cos(s.theta))]

update_positions(sats, dphi) ==
  [k \in 1 .. Len(sats) |-> AdvanceSat(sats[k], dphi)]

----------------------------------------------------------------------------
(* detect_collisions *)

Dist(a, b) == Norm(<<a.x - b.x, a.y - b.y, a.z - b.z>>)

\* mutant: the comparison not strict
Close_OrEqual(a, b, threshold) == Dist(a, b) <= threshold

\* mutant: the magnitude of the threshold compared
Close_Abs(a, b, threshold) == Dist(a, b) < Abs(threshold)

\* mutant: the comparison reversed
Close_Reversed(a, b, threshold) == Dist(a, b) > threshold

\* the test "dist < threshold" on one pair
Close(a, b, threshold) == Dist(a, b) < threshold

RECURSIVE ScanPairs(_, _, _, _, _)
\* the two nested loops, indices from 1: i over the list, j from i + 1
ScanPairs(sats, threshold, i, j, links) ==
  IF i > Len(sats) THEN links
  ELSE IF j > Len(sats) THEN ScanPairs(sats, threshold, i + 1, i + 2, links)
  ELSE ScanPairs(sats, threshold, i, j + 1,
                 IF Close(sats[i], sats[j], threshold)
                 THEN Append(links, <<i, j>>) ELSE links)

detect_collisions(sats, threshold) == ScanPairs(sats, threshold, 1, 2, <<>>)

----------------------------------------------------------------------------
(* make_figure *)

\* values of the clickData property.  None is the Python None; a dict has
\* the key points; a point is a dict that may or may not hold customdata
None == [none |-> TRUE]

DEFAULT_INFO == [kind |-> "default", id |-> <<>>, type |-> "", altitude |-> 0]

NO_CAMERA == [kind |-> "unset", eye |-> <<0, 0, 0>>]

\* truth value of "clickData and clickData.get('points')"
HasPoints(clickData) ==
  /\ "none" \notin DOMAIN clickData
  /\ "points" \in DOMAIN clickData
  /\ Len(clickData.points) > 0

Marker(s) == [x |-> s.x, y |-> s.y, z |-> s.z, customdata |-> s.id]

\* one cyan line per reported pair, between the two satellites' positions
CollisionTraces(sats, links) ==
  [n \in 1 .. Len(links) |->
     LET a == sats[links[n][1]]
         b == sats[links[n][2]]
     IN  [a |-> <<a.x, a.y, a.z>>, b |-> <<b.x, b.y, b.z>>]]

\* next((s for s in all_sats if s['id'] == pid), None), as a sequence of
\* at most one satellite
FindSat(sats, pid) ==
  LET hits == SelectSeq(sats, LAMBDA s : s.id = pid)
  IN  IF Len(hits) = 0 THEN <<>> ELSE <<hits[1]>>

\* the eye of the camera placed on a satellite: 3 * x / r, fixed-point
SatCamera(sat) ==
  [kind |-> "satellite",
   eye  |-> <<RoundDiv(3 * Scale * sat.x, sat.r),
              RoundDiv(3 * Scale * sat.y, sat.r),
              RoundDiv(3 * Scale * sat.z, sat.r)>>]

PresetCamera(preset) ==
  LET R == EARTH_RADIUS + GEO_ALTITUDE
  IN  IF preset = "top" THEN [kind |-> preset, eye |-> <<0, 0, 3 * R>>]
      ELSE IF preset = "equatorial" THEN [kind |-> preset, eye |-> <<3 * R, 0, 0>>]
      ELSE IF preset = "side" THEN [kind |-> preset, eye |-> <<0, 3 * R, 0>>]
      ELSE NO_CAMERA

\* the two scatter traces: the markers of the LEO and of the GEO satellites
Traces(sats) ==
  LET leo == SelectSeq(sats, LAMBDA s : s.type = "LEO")
      geo == SelectSeq(sats, LAMBDA s : s.type = "GEO")
  IN  [leo |-> [n \in 1 .. Len(leo) |-> Marker(leo[n])],
       geo |-> [n \in 1 .. Len(geo) |-> Marker(geo[n])]]

\* make_figure from the collision traces on: the figure assembled from the
\* traces, the click handling and the camera preset.  sats is all_sats as
\* the function reads it; the result holds the exception raised ("none"
\* when the call returns) and the returned pair (fig, info).
Finish(sats, traces, links, clickData, preset) ==
  LET base == [leo       |-> traces.leo,
               geo       |-> traces.geo,
               collision |-> CollisionTraces(sats, links),
               selected  |-> <<>>,
               camera    |-> NO_CAMERA]
  IN  IF HasPoints(clickData)
      THEN IF "customdata" \notin DOMAIN clickData.points[1]
           THEN [sats |-> sats, raised |-> "KeyError",
                 fig |-> base, info |-> DEFAULT_INFO]
           ELSE LET found == FindSat(sats, clickData.points[1].customdata)
                IN  IF Len(found) = 1
                    THEN LET sat == found[1]
                         IN  [sats   |-> sats,
                              raised |-> "none",
                              fig    |-> [base EXCEPT
                                            !.selected = <<[x |-> sat.x, y |-> sat.y, z |-> sat.z]>>,
                                            !.camera = SatCamera(sat)],
                              info   |-> [kind     |-> "satellite",
                                          id       |-> sat.id,
                                          type     |-> sat.type,
                                          altitude |-> sat.r - EARTH_RADIUS]]
                    ELSE [sats |-> sats, raised |-> "none",
                          fig |-> base, info |-> DEFAULT_INFO]
      ELSE IF preset # "default"
      THEN [sats |-> sats, raised |-> "none",
            fig |-> [base EXCEPT !.camera = PresetCamera(preset)],
            info |-> DEFAULT_INFO]
      ELSE [sats |-> sats, raised |-> "none", fig |-> base, info |-> DEFAULT_INFO]

\* mutant: the scatter traces built before the advance
make_figure_StaleTraces(sats, threshold, clickData, preset) ==
  LET moved == update_positions(sats, Step)
  IN  Finish(moved, Traces(sats), detect_collisions(moved, threshold),
             clickData, preset)

\* mutant: no advance when the call carries a click
make_figure_NoAdvanceOnClick(sats, threshold, clickData, preset) ==
  LET moved == IF HasPoints(clickData) THEN sats
               ELSE update_positions(sats, Step)
  IN  Finish(moved, Traces(moved), detect_collisions(moved, threshold),
             clickData, preset)

\* The whole of make_figure, applied to the global list sats: the advance,
\* the scatter traces, the scan, and the rest.  The field sats of the
\* result is the global list as the call leaves it.
make_figure(sats, threshold, clickData, preset) ==
  LET moved == update_positions(sats, Step)
  IN  Finish(moved, Traces(moved), detect_collisions(moved, threshold),
             clickData, preset)

----------------------------------------------------------------------------
(* The program: module load, layout, callbacks *)

NO_FIGURE ==
  [leo |-> <<>>, geo |-> <<>>, collision |-> <<>>, selected |-> <<>>,
   camera |-> NO_CAMERA]

NO_DETECT == [called |-> FALSE, threshold |-> 0, sats |-> <<>>, links |-> <<>>]

IDLE == [pc |-> "idle"]

Threads == {1, 2}

\* the initial values of the callback's inputs in app.layout
INITIAL_UI ==
  [n_intervals |-> 0, clickData |-> None,
   threshold |-> INITIAL_THRESHOLD, preset |-> "default"]

\* thresholds a client may send: the slider's default, values below and at
\* zero, and the diameter of the low shell
Thresholds ==
  {-10, 0, INITIAL_THRESHOLD, 2 * (EARTH_RADIUS + LEO_ALTITUDE)}

\* click events a client may send: no point, a satellite marker, a marker
\* whose id matches no satellite, a point of a trace without customdata
\* (the Earth surface, a collision line)
Clicks ==
  { [points |-> <<>>],
    [points |-> <<[curveNumber |-> 1, customdata |-> <<"LEO", 1>>]>>],
    [points |-> <<[curveNumber |-> 1, customdata |-> <<"LEO", 99>>]>>],
    [points |-> <<[curveNumber |-> 0]>>] }

Presets == {"default", "top", "equatorial", "side"}

\* lines 37-39: the two shells generated with the program's constants
Init ==
  /\ pc = "created"
  /\ cfg = [lowCount |-> NumLeo, geoCount |-> NumGeo,
            lowAltitudeKm |-> LEO_ALTITUDE, geoAltitudeKm |-> GEO_ALTITUDE]
  /\ \E dl \in DrawSeqs(NumLeo), dg \in DrawSeqs(NumGeo) :
       all_sats = generate_satellites(NumLeo, LEO_ALTITUDE, "LEO", dl)
                  \o generate_satellites(NumGeo, GEO_ALTITUDE, "GEO", dg)
  /\ created = all_sats
  /\ ncalls = 0
  /\ ui = INITIAL_UI
  /\ fig = NO_FIGURE
  /\ info = DEFAULT_INFO
  /\ err = "none"
  /\ det = NO_DETECT
  /\ th = [t \in Threads |-> IDLE]

\* the effect of one make_figure call on the program's state
Deliver(res) ==
  /\ all_sats' = res.sats
  /\ err' = res.raised
  /\ fig' = IF res.raised = "none" THEN res.fig ELSE fig
  /\ info' = IF res.raised = "none" THEN res.info ELSE info
  /\ ncalls' = ncalls + 1
  /\ UNCHANGED <<cfg, created, det, th>>

\* app.layout: the figure of the graph is make_figure(INITIAL_THRESHOLD,
\* None, 'default'), called once while the layout is built
BuildLayout ==
  /\ pc = "created"
  /\ ncalls < MaxTicks
  /\ pc' = "serving"
  /\ ui' = ui
  /\ Deliver(make_figure(all_sats, INITIAL_THRESHOLD, None, "default"))

\* update_graph, called with the current values of its four inputs
update_graph(inputs) ==
  /\ pc = "serving"
  /\ ncalls < MaxTicks
  /\ pc' = pc
  /\ ui' = inputs
  /\ Deliver(make_figure(all_sats, inputs.threshold, inputs.clickData,
                         inputs.preset))

\* the interval component fires
IntervalFire ==
  \E n \in {ui.n_intervals + 1} : update_graph([ui EXCEPT !.n_intervals = n])

\* the user clicks in the graph
ClickGraph ==
  /\ pc = "serving"
  /\ \E c \in Clicks : update_graph([ui EXCEPT !.clickData = c])

\* the user moves the threshold slider (or a client sends another value)
SliderChange ==
  \E t \in Thresholds \ {ui.threshold} :
    update_graph([ui EXCEPT !.threshold = t])

\* the user picks a camera preset
PresetChange ==
  \E p \in Presets \ {ui.preset} : update_graph([ui EXCEPT !.preset = p])

Next ==
  \/ BuildLayout
  \/ IntervalFire
  \/ ClickGraph
  \/ SliderChange
  \/ PresetChange

Spec == Init /\ [][Next]_vars

----------------------------------------------------------------------------
(* The three functions on their own (SpecFn): generate_satellites with any *)
(* arguments, update_positions, detect_collisions with any threshold       *)

\* counts passed to generate_satellites: negative, zero, positive
Counts(n) == -1 .. n

\* altitudes of the low and of the geostationary shell: the program's, one
\* altitude for both shells, a zero with a negative one
AltitudePairs ==
  { <<LEO_ALTITUDE, GEO_ALTITUDE>>,
    <<LEO_ALTITUDE, LEO_ALTITUDE>>,
    <<0, -EARTH_RADIUS>> }

\* thresholds passed to detect_collisions
DetectThresholds ==
  Thresholds \cup {2 * (EARTH_RADIUS + LEO_ALTITUDE) + 1}

InitFn ==
  /\ pc = "start"
  /\ cfg = [lowCount |-> 0, geoCount |-> 0,
            lowAltitudeKm |-> 0, geoAltitudeKm |-> 0]
  /\ all_sats = <<>>
  /\ created = <<>>
  /\ ncalls = 0
  /\ ui = INITIAL_UI
  /\ fig = NO_FIGURE
  /\ info = DEFAULT_INFO
  /\ err = "none"
  /\ det = NO_DETECT
  /\ th = [t \in Threads |-> IDLE]

\* lines 37-39 with other arguments: neither generate_satellites nor the
\* concatenation tests its arguments or raises
Initialize ==
  /\ pc = "start"
  /\ \E lowCount \in Counts(NumLeo), geoCount \in Counts(NumGeo),
        alt \in AltitudePairs :
       \E dl \in DrawSeqs(lowCount), dg \in DrawSeqs(geoCount) :
         /\ cfg' = [lowCount |-> lowCount, geoCount |-> geoCount,
                    lowAltitudeKm |-> alt[1], geoAltitudeKm |-> alt[2]]
         /\ all_sats' = generate_satellites(lowCount, alt[1], "LEO", dl)
                        \o generate_satellites(geoCount, alt[2], "GEO", dg)
  /\ created' = all_sats'
  /\ err' = "none"
  /\ pc' = "created"
  /\ UNCHANGED <<ncalls, ui, fig, info, det, th>>

\* update_positions(all_sats, np.radians(0.5)) on its own
Advance ==
  /\ pc = "created"
  /\ ncalls < MaxAdvances
  /\ all_sats' = update_positions(all_sats, Step)
  /\ ncalls' = ncalls + 1
  /\ det' = NO_DETECT
  /\ UNCHANGED <<pc, cfg, created, ui, fig, info, err, th>>

\* detect_collisions(all_sats, t) on its own; det records the list it was
\* given and the list it returned
Detect ==
  /\ pc = "created"
  /\ \E t \in DetectThresholds :
       det' = [called |-> TRUE, threshold |-> t, sats |-> all_sats,
               links |-> detect_collisions(all_sats, t)]
  /\ UNCHANGED <<pc, cfg, all_sats, created, ncalls, ui, fig, info, err, th>>

NextFn ==
  \/ Initialize
  \/ Advance
  \/ Detect

SpecFn == InitFn /\ [][NextFn]_vars

----------------------------------------------------------------------------
(* Concurrent callbacks (SpecConc): app.run serves each request on its own *)
(* thread, and update_graph holds no lock, so two make_figure calls may    *)
(* interleave on all_sats statement by statement                           *)

\* the statements of the loop body of update_positions
LoopLines == {"L44", "L45", "L46", "L47", "L48"}

\* a request reaches a free thread: update_graph(inputs) starts
Begin(t) ==
  /\ pc = "serving"
  /\ th[t].pc = "idle"
  /\ ncalls < MaxTicks
  /\ ncalls' = ncalls + 1
  /\ th' = [th EXCEPT ![t] =
              [pc |-> IF Len(all_sats) = 0 THEN "traces" ELSE "L44",
               inputs |-> ui, i |-> 1,
               loc |-> [theta |-> 0, phi |-> 0, r |-> 0],
               traces |-> [leo |-> <<>>, geo |-> <<>>],
               links |-> <<>>]]
  /\ UNCHANGED <<pc, cfg, all_sats, created, ui, fig, info, err, det>>

\* line 44: s['phi'] = (s['phi'] + dphi) % (2 * np.pi), read and write in
\* one step
StepL44(t) ==
  /\ th[t].pc = "L44"
  /\ all_sats' = [all_sats EXCEPT ![th[t].i].phi = (@ + Step) % FullCircle]
  /\ th' = [th EXCEPT ![t].pc = "L45"]
  /\ UNCHANGED <<pc, cfg, created, ncalls, ui, fig, info, err, det>>

\* line 45: th, ph, r = s['theta'], s['phi'], s['r']
StepL45(t) ==
  /\ th[t].pc = "L45"
  /\ th' = [th EXCEPT ![t].pc = "L46",
                      ![t].loc = [theta |-> all_sats[th[t].i].theta,
                                  phi   |-> all_sats[th[t].i].phi,
                                  r     |-> all_sats[th[t].i].r]]
  /\ UNCHANGED <<pc, cfg, all_sats, created, ncalls, ui, fig, info, err, det>>

\* line 46: s['x'] = r * np.sin(th) * np.cos(ph)
StepL46(t) ==
  /\ th[t].pc = "L46"
  /\ all_sats' = [all_sats EXCEPT ![th[t].i].x =
                    Mul(Mul(th[t].loc.r, Sin(th[t].loc.theta)), Cos(th[t].loc.phi))]
  /\ th' = [th EXCEPT ![t].pc = "L47"]
  /\ UNCHANGED <<pc, cfg, created, ncalls, ui, fig, info, err, det>>

\* line 47: s['y'] = r * np.sin(th) * np.sin(ph)
StepL47(t) ==
  /\ th[t].pc = "L47"
  /\ all_sats' = [all_sats EXCEPT ![th[t].i].y =
                    Mul(Mul(th[t].loc.r, Sin(th[t].loc.theta)), Sin(th[t].loc.phi))]
  /\ th' = [th EXCEPT ![t].pc = "L48"]
  /\ UNCHANGED <<pc, cfg, created, ncalls, ui, fig, info, err, det>>

\* line 48: s['z'] = r * np.cos(th), then the next satellite or the end of
\* the loop
StepL48(t) ==
  /\ th[t].pc = "L48"
  /\ all_sats' = [all_sats EXCEPT ![th[t].i].z =
                    Mul(th[t].loc.r, Cos(th[t].loc.theta))]
  /\ th' = [th EXCEPT ![t].pc = IF th[t].i < Len(all_sats) THEN "L44" ELSE "traces",
                      ![t].i = @ + 1]
  /\ UNCHANGED <<pc, cfg, created, ncalls, ui, fig, info, err, det>>

\* lines 78-101: the scatter traces read the positions
StepTraces(t) ==
  /\ th[t].pc = "traces"
  /\ th' = [th EXCEPT ![t].pc = "scan", ![t].traces = Traces(all_sats)]
  /\ UNCHANGED <<pc, cfg, all_sats, created, ncalls, ui, fig, info, err, det>>

\* line 104: links = detect_collisions(all_sats, threshold)
StepScan(t) ==
  /\ th[t].pc = "scan"
  /\ th' = [th EXCEPT ![t].pc = "finish",
                      ![t].links = detect_collisions(all_sats, th[t].inputs.threshold)]
  /\ UNCHANGED <<pc, cfg, all_sats, created, ncalls, ui, fig, info, err, det>>

\* lines 105-166 and the return of update_graph
StepFinish(t) ==
  /\ th[t].pc = "finish"
  /\ LET res == Finish(all_sats, th[t].traces, th[t].links,
                       th[t].inputs.clickData, th[t].inputs.preset)
     IN  /\ err' = res.raised
         /\ fig' = IF res.raised = "none" THEN res.fig ELSE fig
         /\ info' = IF res.raised = "none" THEN res.info ELSE info
  /\ th' = [th EXCEPT ![t] = IDLE]
  /\ UNCHANGED <<pc, cfg, all_sats, created, ncalls, ui, det>>

NextConc ==
  \/ BuildLayout
  \/ \E t \in Threads :
       \/ Begin(t)
       \/ StepL44(t)
       \/ StepL45(t)
       \/ StepL46(t)
       \/ StepL47(t)
       \/ StepL48(t)
       \/ StepTraces(t)
       \/ StepScan(t)
       \/ StepFinish(t)

SpecConc == Init /\ [][NextConc]_vars

----------------------------------------------------------------------------
(* Properties of the sequential program (Spec) *)

Indices == 1 .. Len(all_sats)

Position(s) == <<s.x, s.y, s.z>>

\* two list entries at the same place
Coincide(i, j) == Position(all_sats[i]) = Position(all_sats[j])

\* the square of the distance between two points is below t * t, and t is
\* positive: the distance is strictly below t.  Stated without Norm; the
\* components are tested first so that no square exceeds 32 bits.
StrictlyWithin(p, q, t) ==
  /\ t > 0
  /\ Abs(p[1] - q[1]) < t
  /\ Abs(p[2] - q[2]) < t
  /\ Abs(p[3] - q[3]) < t
  /\ (p[1] - q[1]) * (p[1] - q[1]) + (p[2] - q[2]) * (p[2] - q[2])
       + (p[3] - q[3]) * (p[3] - q[3]) < t * t

\* C1: after any number of make_figure calls, zero included, every
\* satellite's r and theta are the values it was created with, and its
\* phi lies in [0, 2*pi): at least 0 and strictly below FullCircle.
C1_ShellFixedAzimuthWrapped ==
  /\ Len(all_sats) = Len(created)
  /\ \A k \in Indices :
       /\ all_sats[k].r = created[k].r
       /\ all_sats[k].theta = created[k].theta
       /\ all_sats[k].phi >= 0
       /\ all_sats[k].phi < FullCircle

\* C1 witness: a satellite created one step below 2*pi has been advanced
\* twice and stands at phi = 1, past the wrap
C1_Witness ==
  /\ ncalls >= 2
  /\ \E k \in Indices :
       /\ created[k].phi = FullCircle - 1
       /\ all_sats[k].phi = 1

\* C3: a call with a threshold at or below zero completes as it does for
\* any threshold, and reports no pair, as for threshold 0, even with two
\* satellites at the same place.  The only exception a call raises is the
\* KeyError of a clicked point without customdata, whatever the threshold.
C3_NonPositiveThresholdReportsNothing ==
  (pc = "serving" /\ ui.threshold <= 0) =>
    /\ err = "none" => fig.collision = <<>>
    /\ err # "none" =>
         /\ HasPoints(ui.clickData)
         /\ "customdata" \notin DOMAIN ui.clickData.points[1]
    /\ detect_collisions(all_sats, ui.threshold) = <<>>
    /\ detect_collisions(all_sats, ui.threshold) = detect_collisions(all_sats, 0)

\* C3 witness: a call with a negative threshold has returned while two
\* satellites occupy the same position
C3_Witness ==
  /\ pc = "serving"
  /\ ui.threshold < 0
  /\ err = "none"
  /\ \E i, j \in Indices : i < j /\ Coincide(i, j)

\* the click carries no point, or a point without an id, or an id that
\* no satellite has
NamesNoSatellite(clickData) ==
  \/ ~HasPoints(clickData)
  \/ "customdata" \notin DOMAIN clickData.points[1]
  \/ FindSat(all_sats, clickData.points[1].customdata) = <<>>

\* C5: no click input makes the call fail: every call returns, and a click
\* that names no satellite leaves the default info text.
C5_LookupNeverFails ==
  pc = "serving" =>
    /\ err = "none"
    /\ NamesNoSatellite(ui.clickData) => info = DEFAULT_INFO

\* C7: the population is the one created: same length, same ids and
\* classes in the same order; the ids are pairwise distinct, and those of
\* a class are <class>_1 .. <class>_<count of the class>.
C7_PopulationFixed ==
  /\ Len(all_sats) = Len(created)
  /\ Len(all_sats) = NumLeo + NumGeo
  /\ \A k \in Indices :
       /\ all_sats[k].id = created[k].id
       /\ all_sats[k].type = created[k].type
       /\ all_sats[k].id[1] = all_sats[k].type
  /\ \A i, j \in Indices : i # j => all_sats[i].id # all_sats[j].id
  /\ {all_sats[k].id[2] : k \in {n \in Indices : all_sats[n].type = "LEO"}}
       = 1 .. NumLeo
  /\ {all_sats[k].id[2] : k \in {n \in Indices : all_sats[n].type = "GEO"}}
       = 1 .. NumGeo

\* C7 witness: every explored call has run and has moved the population
C7_Witness ==
  /\ ncalls = MaxTicks
  /\ all_sats # created
  /\ Len(all_sats) = NumLeo + NumGeo

\* the marker positions a figure shows, LEO trace then GEO trace
Shown(f) ==
  [n \in 1 .. Len(f.leo) + Len(f.geo) |->
     IF n <= Len(f.leo)
     THEN <<f.leo[n].x, f.leo[n].y, f.leo[n].z>>
     ELSE <<f.geo[n - Len(f.leo)].x, f.geo[n - Len(f.leo)].y,
            f.geo[n - Len(f.leo)].z>>]

\* C9: the figure a call returns shows the positions the population has
\* after that call's advance, and its collision lines join exactly the
\* pairs of shown positions that are strictly within the call's threshold.
C9_FigureScansWhatItShows ==
  (pc = "serving" /\ err = "none") =>
    /\ Shown(fig) = [k \in Indices |-> Position(all_sats[k])]
    /\ {<<fig.collision[n].a, fig.collision[n].b>> :
          n \in 1 .. Len(fig.collision)}
         = {<<Shown(fig)[i], Shown(fig)[j]>> :
              <<i, j>> \in {q \in Indices \X Indices :
                 /\ q[1] < q[2]
                 /\ StrictlyWithin(Shown(fig)[q[1]], Shown(fig)[q[2]],
                                   ui.threshold)}}

\* C9 witness: a callback has returned a figure that joins one pair and
\* leaves another pair unjoined
C9_Witness ==
  /\ pc = "serving"
  /\ err = "none"
  /\ ncalls >= 2
  /\ Len(fig.collision) >= 1
  /\ Len(fig.collision) < (Len(all_sats) * (Len(all_sats) - 1)) \div 2

\* C10: after n make_figure calls in all, the layout's call included,
\* every satellite's phi is (phi at creation + n * Step) mod 2*pi.
C10_EveryCallAdvancesOneStep ==
  \A k \in Indices :
    all_sats[k].phi = (created[k].phi + ncalls * Step) % FullCircle

\* C10 witness: three calls have run and the interval has never fired:
\* the layout's call, a click and a threshold or preset change
C10_Witness ==
  /\ ncalls = 3
  /\ ui.n_intervals = 0
  /\ HasPoints(ui.clickData)
  /\ (ui.threshold # INITIAL_THRESHOLD \/ ui.preset # "default")

----------------------------------------------------------------------------
(* Properties of the functions (SpecFn) *)

LinkSet(links) == {links[n] : n \in 1 .. Len(links)}

\* the pairs i < j of the population strictly within t of each other
PairsWithin(t) ==
  {q \in Indices \X Indices :
     /\ q[1] < q[2]
     /\ StrictlyWithin(Position(all_sats[q[1]]), Position(all_sats[q[2]]), t)}

\* the distance of two points is exactly t
ExactlyAt(p, q, t) ==
  /\ Abs(p[1] - q[1]) <= t
  /\ Abs(p[2] - q[2]) <= t
  /\ Abs(p[3] - q[3]) <= t
  /\ (p[1] - q[1]) * (p[1] - q[1]) + (p[2] - q[2]) * (p[2] - q[2])
       + (p[3] - q[3]) * (p[3] - q[3]) = t * t

\* C2: detect_collisions returns exactly the pairs (i, j), i < j, whose
\* distance is strictly below the threshold, each once: no pair at the
\* threshold, no (j, i), no (i, i), no duplicate.
C2_DetectExactPairs ==
  det.called =>
    /\ \A n \in 1 .. Len(det.links) :
         /\ det.links[n][1] \in Indices
         /\ det.links[n][2] \in Indices
         /\ det.links[n][1] < det.links[n][2]
    /\ \A m, n \in 1 .. Len(det.links) : m # n => det.links[m] # det.links[n]
    /\ LinkSet(det.links) = PairsWithin(det.threshold)

\* C2 witness: a scan with a positive threshold reported a pair and left
\* out a pair whose distance is exactly the threshold
C2_Witness ==
  /\ det.called
  /\ det.threshold > 0
  /\ Len(det.links) >= 1
  /\ \E i, j \in Indices :
       /\ i < j
       /\ ExactlyAt(Position(all_sats[i]), Position(all_sats[j]), det.threshold)
       /\ <<i, j>> \notin LinkSet(det.links)

\* C4 as stated: generation with a negative count or a non-positive
\* altitude fails with InvalidConfiguration and yields no population.
C4_InvalidConfigurationRaised ==
  (/\ pc = "created"
   /\ \/ cfg.lowCount < 0
      \/ cfg.geoCount < 0
      \/ cfg.lowAltitudeKm <= 0
      \/ cfg.geoAltitudeKm <= 0)
  => (err = "InvalidConfiguration" /\ all_sats = <<>>)

AltitudeOf(type) ==
  IF type = "LEO" THEN cfg.lowAltitudeKm ELSE cfg.geoAltitudeKm

\* C4 amended: generation never fails; a negative count yields no
\* satellite of that class, as a count of zero does, and every satellite
\* has r = EARTH_RADIUS + the altitude given, whatever its sign.
C4_GenerationAcceptsAnyConfiguration ==
  pc = "created" =>
    /\ err = "none"
    /\ Len(all_sats) = Max(cfg.lowCount, 0) + Max(cfg.geoCount, 0)
    /\ Len(SelectSeq(all_sats, LAMBDA s : s.type = "LEO")) = Max(cfg.lowCount, 0)
    /\ \A k \in Indices :
         all_sats[k].r = EARTH_RADIUS + AltitudeOf(all_sats[k].type)

\* C4 witness: a negative count and a negative altitude were given, and a
\* population with a satellite at the Earth's centre came out
C4_Witness ==
  /\ pc = "created"
  /\ cfg.lowCount < 0
  /\ cfg.geoAltitudeKm < 0
  /\ Len(all_sats) >= 1
  /\ \E k \in Indices : all_sats[k].r <= 0

\* C8: on one population the pairs found for a threshold are among those
\* found for any larger threshold; and detect_collisions leaves the
\* population as it was given, so that calling it again with the same
\* threshold returns the same list.
C8_DetectMonotoneAndPure ==
  /\ \A found \in {[t \in DetectThresholds |->
                       LinkSet(detect_collisions(all_sats, t))]} :
       \A t1, t2 \in DetectThresholds :
         t1 < t2 => found[t1] \subseteq found[t2]
  /\ det.called =>
       /\ all_sats = det.sats
       /\ detect_collisions(all_sats, det.threshold) = det.links

\* C8 witness: a scan has run on a population for which a larger threshold
\* finds strictly more pairs than a smaller one that finds some
C8_Witness ==
  /\ det.called
  /\ \E t1, t2 \in DetectThresholds :
       /\ t1 < t2
       /\ detect_collisions(all_sats, t1) # <<>>
       /\ LinkSet(detect_collisions(all_sats, t1))
            # LinkSet(detect_collisions(all_sats, t2))

----------------------------------------------------------------------------
(* Properties of concurrent callbacks (SpecConc) *)

\* thread t has advanced a part of the population and not yet all of it:
\* some satellite's phi is written while a later statement of the loop, or
\* a later satellite, is still to come
PartlyAdvanced(t) ==
  \/ th[t].pc \in LoopLines \ {"L44"}
  \/ th[t].pc = "L44" /\ th[t].i > 1

\* thread t is about to read positions for its traces, its scan or its
\* collision lines
Reading(t) == th[t].pc \in {"traces", "scan", "finish"}

\* C6: concurrent callbacks exclude each other on the population: no call
\* reads the positions, and no call writes them, while another call has
\* advanced only a part of the population.
C6_TicksMutuallyExclusive ==
  \A t, u \in Threads :
    t # u =>
      /\ ~(Reading(t) /\ PartlyAdvanced(u))
      /\ ~(PartlyAdvanced(t) /\ PartlyAdvanced(u))

====
